---- MODULE Spec2Model ----
(***************************************************************************)
(* A model of jax.experimental.rnn (src/jax/experimental/rnn.py): the      *)
(* packed LSTM weight layout (_get_params_shapes_in_lstm,                  *)
(* get_num_params_in_lstm, init_lstm_weight, unpack_lstm_weights), the     *)
(* reference evaluator lstm_ref, and the custom-vjp pair lstm_fwd/lstm_bwd *)
(* around the opaque kernel primitives rnn_fwd_p / rnn_bwd_p.              *)
(*                                                                         *)
(* Scalars.  The source computes on float32.  The model computes on the    *)
(* finite ring Z_Modulus: + and * are the ring's, and sigmoid / tanh are   *)
(* two fixed, different, non-linear unary maps on it.  Every equality the  *)
(* model confirms holds because the two sides are the same expression in   *)
(* the inputs; every inequality it reports is between two different        *)
(* expressions.                                                            *)
(*                                                                         *)
(* Arrays.  A 1-D array is a sequence of scalars, a 2-D array a sequence   *)
(* of rows, a 3-D array a sequence of 2-D arrays.  Python indices are      *)
(* 0-based; a Python dict keyed by pseudo-layer l is a function on 0..l.   *)
(***************************************************************************)
EXTENDS Integers, Sequences, FiniteSets, TLC

(***************************************************************************)
(* Bounds of the model.                                                    *)
(***************************************************************************)
MaxInput == 2
MaxHidden == 2
MaxLayers == 2
MaxSeqLen == 2
MaxBatch == 2
MaxDelta == 2
MaxRng == 1
MaxCalls == 2
Modulus == 97

VARIABLES
  input_size, hidden_size, num_layers, bidirectional,  \* the configuration
  weights,      \* the packed 1-D parameter buffer
  unpack,       \* frame of unpack_lstm_weights: its locals, slices, outcome
  x, h_0, c_0, seq_lengths, dropout,   \* the other arguments of lstm_ref
  ref,          \* frame of lstm_ref: its locals and outcome
  tape,         \* residuals returned by lstm_fwd, held by the caller
  kernel_fwd,   \* what rnn_fwd_p.bind received and returned, per call
  bwd           \* the last lstm_bwd call: what rnn_bwd_p.bind received,
                \* what it returned and what lstm_bwd returned

cfgVars == <<input_size, hidden_size, num_layers, bidirectional>>
refArgs == <<x, h_0, c_0, seq_lengths, dropout>>
vjpVars == <<tape, kernel_fwd, bwd>>
vars == <<cfgVars, weights, unpack, refArgs, ref, vjpVars>>

Min(a, b) == IF a < b THEN a ELSE b

(***************************************************************************)
(* Shapes of the packed layout.                                            *)
(***************************************************************************)
RECURSIVE prod(_)
prod(shape) == IF shape = <<>> THEN 1 ELSE Head(shape) * prod(Tail(shape))

\* variant of _W_ih_l: the test on layer 1 forgets bidirectional
_W_ih_l_first_two(layer_i, in_size, hid, bidir) ==
  IF layer_i = 0 \/ layer_i = 1
    THEN <<4 * hid, in_size>>
    ELSE <<4 * hid, (IF bidir THEN 2 ELSE 1) * hid>>

_W_ih_l(layer_i, in_size, hid, bidir) ==
  IF layer_i = 0 \/ (layer_i = 1 /\ bidir)
    THEN <<4 * hid, in_size>>
    ELSE LET num_directions == IF bidir THEN 2 ELSE 1
         IN  <<4 * hid, num_directions * hid>>

_W_hh_l(layer_i, in_size, hid, bidir) == <<4 * hid, hid>>

_b_ih_l(layer_i, in_size, hid, bidir) == <<4 * hid>>

_b_hh_l(layer_i, in_size, hid, bidir) == <<4 * hid>>

\* for i in range(num_pseudo_layers): for w_kind in [_W_ih_l, _W_hh_l]
RECURSIVE linear_weights(_, _, _, _, _)
linear_weights(i, num_pseudo_layers, in_size, hid, bidir) ==
  IF i >= num_pseudo_layers THEN <<>>
  ELSE <<_W_ih_l(i, in_size, hid, bidir), _W_hh_l(i, in_size, hid, bidir)>>
       \o linear_weights(i + 1, num_pseudo_layers, in_size, hid, bidir)

\* for i in range(num_pseudo_layers): for w_kind in [_b_ih_l, _b_hh_l]
RECURSIVE bias_weights(_, _, _, _, _)
bias_weights(i, num_pseudo_layers, in_size, hid, bidir) ==
  IF i >= num_pseudo_layers THEN <<>>
  ELSE <<_b_ih_l(i, in_size, hid, bidir), _b_hh_l(i, in_size, hid, bidir)>>
       \o bias_weights(i + 1, num_pseudo_layers, in_size, hid, bidir)

\* variant of _get_params_shapes_in_lstm: each pseudo-layer's biases follow
\* its linear weights
_get_params_shapes_interleaved(in_size, hid, layers, bidir) ==
  LET num_directions == IF bidir THEN 2 ELSE 1
      num_pseudo_layers == layers * num_directions
      lin == linear_weights(0, num_pseudo_layers, in_size, hid, bidir)
      bia == bias_weights(0, num_pseudo_layers, in_size, hid, bidir)
  IN  [j \in 1..(4 * num_pseudo_layers) |->
         LET i == (j - 1) \div 4
             r == (j - 1) % 4
         IN  IF r < 2 THEN lin[2 * i + r + 1] ELSE bia[2 * i + r - 1]]

_get_params_shapes_in_lstm(in_size, hid, layers, bidir) ==
  LET num_directions == IF bidir THEN 2 ELSE 1
      num_pseudo_layers == layers * num_directions
  IN  linear_weights(0, num_pseudo_layers, in_size, hid, bidir)
      \o bias_weights(0, num_pseudo_layers, in_size, hid, bidir)

RECURSIVE sum_prod(_)
sum_prod(shapes) ==
  IF shapes = <<>> THEN 0 ELSE prod(Head(shapes)) + sum_prod(Tail(shapes))

get_num_params_in_lstm(in_size, hid, layers, bidir) ==
  sum_prod(_get_params_shapes_in_lstm(in_size, hid, layers, bidir))

\* jax.random.uniform(rng, shape=(n,)): a buffer of n scalars fixed by rng.
Draw(rng, k) == ((rng + 1) * k * k + 3 * k + rng) % Modulus

uniform(rng, n) == [k \in 1..n |-> Draw(rng, k)]

\* jax.random.normal(key, (d1, d2, d3)): a 3-D array fixed by key
normal(key, d1, d2, d3) ==
  [a \in 1..d1 |-> [b \in 1..d2 |-> [c \in 1..d3 |->
     Draw(key, ((a - 1) * d2 + (b - 1)) * d3 + c)]]]

init_lstm_weight(rng, in_size, hid, layers, bidir) ==
  uniform(rng, get_num_params_in_lstm(in_size, hid, layers, bidir))

(***************************************************************************)
(* unpack_lstm_weights.                                                    *)
(***************************************************************************)
\* weights[a : a + n] with Python's clipping of the slice to the buffer
Slice(buf, a, n) == SubSeq(buf, a + 1, Min(a + n, Len(buf)))

\* variant of reshape: column-major
reshape_col_major(flat, shape) ==
  IF Len(shape) = 1 THEN flat
  ELSE [r \in 1..shape[1] |-> [c \in 1..shape[2] |-> flat[(c - 1) * shape[1] + r]]]

\* reshape of a flat array into shape (row-major); defined when sizes agree
reshape(flat, shape) ==
  IF Len(shape) = 1 THEN flat
  ELSE [r \in 1..shape[1] |-> [c \in 1..shape[2] |-> flat[(r - 1) * shape[2] + c]]]

NoDict == <<>>

\* the frame before the call
UnpackIdle ==
  [pc |-> "idle", flat_shapes |-> <<>>, flat_shapes_offset |-> 0,
   w_offsets |-> 0, l |-> 0, w_kind |-> 0,
   W_ih |-> NoDict, W_hh |-> NoDict, b_ih |-> NoDict, b_hh |-> NoDict,
   slices |-> <<>>, error |-> "none", returned |-> FALSE]

\* lines 191-199: the locals after the prologue
UnpackEnter(buf, in_size, hid, layers, bidir) ==
  [UnpackIdle EXCEPT
     !.pc = "linear",
     !.flat_shapes = _get_params_shapes_in_lstm(in_size, hid, layers, bidir)]

DictPut(d, key, val) ==
  [k \in (DOMAIN d) \cup {key} |-> IF k = key THEN val ELSE d[k]]

\* variant of UnpackBody: the bias loops restart the running offset at 0
UnpackBodyRestart(f, buf, num_pseudo_layers) ==
  LET shape == f.flat_shapes[f.flat_shapes_offset + 1]
      num_elems == prod(shape)
      start == IF f.pc = "bias" /\ f.l = 0 /\ f.w_kind = 0 THEN 0 ELSE f.w_offsets
      taken == Slice(buf, start, num_elems)
      logged == Append(f.slices, [start |-> start, len |-> Len(taken),
                                   want |-> num_elems])
  IN  IF Len(taken) # num_elems
        THEN [f EXCEPT !.pc = "raised", !.error = "reshape", !.slices = logged,
                       !.flat_shapes_offset = @ + 1]
        ELSE LET arr == reshape(taken, shape)
                 g == [f EXCEPT
                         !.flat_shapes_offset = @ + 1,
                         !.w_offsets = start + num_elems,
                         !.slices = logged,
                         !.W_ih = IF f.pc = "linear" /\ f.w_kind = 0
                                    THEN DictPut(@, f.l, arr) ELSE @,
                         !.W_hh = IF f.pc = "linear" /\ f.w_kind = 1
                                    THEN DictPut(@, f.l, arr) ELSE @,
                         !.b_ih = IF f.pc = "bias" /\ f.w_kind = 0
                                    THEN DictPut(@, f.l, arr) ELSE @,
                         !.b_hh = IF f.pc = "bias" /\ f.w_kind = 1
                                    THEN DictPut(@, f.l, arr) ELSE @]
             IN  IF f.w_kind = 0 THEN [g EXCEPT !.w_kind = 1]
                 ELSE IF f.l + 1 < num_pseudo_layers
                        THEN [g EXCEPT !.w_kind = 0, !.l = f.l + 1]
                 ELSE IF f.pc = "linear"
                        THEN [g EXCEPT !.w_kind = 0, !.l = 0, !.pc = "bias"]
                 ELSE [g EXCEPT !.pc = "return"]

\* one iteration of an inner loop body (lines 202-206 and 212-216), then the
\* loop bookkeeping of the two nested for statements
UnpackBody(f, buf, num_pseudo_layers) ==
  LET shape == f.flat_shapes[f.flat_shapes_offset + 1]
      num_elems == prod(shape)
      taken == Slice(buf, f.w_offsets, num_elems)
      logged == Append(f.slices, [start |-> f.w_offsets, len |-> Len(taken),
                                   want |-> num_elems])
  IN  IF Len(taken) # num_elems
        THEN \* .reshape(shape) raises: the slice was clipped by the buffer's end
             [f EXCEPT !.pc = "raised", !.error = "reshape", !.slices = logged,
                       !.flat_shapes_offset = @ + 1]
        ELSE LET arr == reshape(taken, shape)
                 g == [f EXCEPT
                         !.flat_shapes_offset = @ + 1,
                         !.w_offsets = @ + num_elems,
                         !.slices = logged,
                         !.W_ih = IF f.pc = "linear" /\ f.w_kind = 0
                                    THEN DictPut(@, f.l, arr) ELSE @,
                         !.W_hh = IF f.pc = "linear" /\ f.w_kind = 1
                                    THEN DictPut(@, f.l, arr) ELSE @,
                         !.b_ih = IF f.pc = "bias" /\ f.w_kind = 0
                                    THEN DictPut(@, f.l, arr) ELSE @,
                         !.b_hh = IF f.pc = "bias" /\ f.w_kind = 1
                                    THEN DictPut(@, f.l, arr) ELSE @]
             IN  IF f.w_kind = 0 THEN [g EXCEPT !.w_kind = 1]
                 ELSE IF f.l + 1 < num_pseudo_layers
                        THEN [g EXCEPT !.w_kind = 0, !.l = f.l + 1]
                 ELSE IF f.pc = "linear"
                        THEN [g EXCEPT !.w_kind = 0, !.l = 0, !.pc = "bias"]
                 ELSE [g EXCEPT !.pc = "return"]

\* line 217
UnpackReturn(f) == [f EXCEPT !.pc = "done", !.returned = TRUE]

\* the whole call, as the composition of its steps
RECURSIVE UnpackRun(_, _, _)
UnpackRun(f, buf, num_pseudo_layers) ==
  IF f.pc \in {"linear", "bias"}
    THEN UnpackRun(UnpackBody(f, buf, num_pseudo_layers), buf, num_pseudo_layers)
  ELSE IF f.pc = "return" THEN UnpackReturn(f)
  ELSE f

unpack_lstm_weights(buf, in_size, hid, layers, bidir) ==
  UnpackRun(UnpackEnter(buf, in_size, hid, layers, bidir), buf,
            layers * (IF bidir THEN 2 ELSE 1))

NumPseudoLayers == num_layers * (IF bidirectional THEN 2 ELSE 1)

(***************************************************************************)
(* lstm_ref.                                                               *)
(***************************************************************************)
\* the ring stand-ins of jax.nn.sigmoid and jax.nn.tanh
sigmoid(v) == (v * v + 1) % Modulus

tanh(v) == (v * v * v + 2 * v) % Modulus

\* an array as a value: the tuple of its elements
Array(a) == SubSeq(a, 1, Len(a))

RECURSIVE dot(_, _)
dot(u, w) ==
  IF u = <<>> THEN 0 ELSE (Head(u) * Head(w) + dot(Tail(u), Tail(w))) % Modulus

\* jnp.split(a, 4, axis=0)[k], k = 0..3
split4(a, k) == SubSeq(a, k * (Len(a) \div 4) + 1, (k + 1) * (Len(a) \div 4))

\* a.transpose(1, 0, 2)
transpose(a) ==
  IF a = <<>> THEN <<>>
  ELSE [i \in 1..Len(a[1]) |-> [j \in 1..Len(a) |-> a[j][i]]]

\* jnp.concatenate([a, b], axis=-1) of two (T, B, F) arrays
concatenate(a, b) ==
  [t \in 1..Len(a) |-> [n \in 1..Len(a[t]) |-> a[t][n] \o b[t][n]]]

\* gate pre-activation for batch row n, hidden unit j:
\* x @ W.T + b_i[None] + h @ W_h.T + b_h[None]
Gate(xt, h, Wi, Wh, bi, bh, n, j) ==
  (dot(xt[n], Wi[j]) + bi[j] + dot(h[n], Wh[j]) + bh[j]) % Modulus

lstm_cell(carry, xt, W_ih, W_hh, b_ih, b_hh) ==
  LET h == carry[1]
      c == carry[2]
      hid == Len(W_hh[1])
      i(n, j) == sigmoid(Gate(xt, h, split4(W_ih, 0), split4(W_hh, 0),
                              split4(b_ih, 0), split4(b_hh, 0), n, j))
      f(n, j) == sigmoid(Gate(xt, h, split4(W_ih, 1), split4(W_hh, 1),
                              split4(b_ih, 1), split4(b_hh, 1), n, j))
      g(n, j) == tanh(Gate(xt, h, split4(W_ih, 2), split4(W_hh, 2),
                           split4(b_ih, 2), split4(b_hh, 2), n, j))
      o(n, j) == sigmoid(Gate(xt, h, split4(W_ih, 3), split4(W_hh, 3),
                              split4(b_ih, 3), split4(b_hh, 3), n, j))
      c2 == Array([n \in 1..Len(xt) |-> Array([j \in 1..hid |->
               (f(n, j) * c[n][j] + i(n, j) * g(n, j)) % Modulus])])
      h2 == Array([n \in 1..Len(xt) |-> Array([j \in 1..hid |->
               (o(n, j) * tanh(c2[n][j])) % Modulus])])
  IN  <<<<h2, c2>>, h2>>

\* jax.lax.scan(cell, init, xs, reverse): step k (0-based) consumes xs[t]
\* with t = k + 1, or t = T - k under reverse, and writes its output at ys[t]
RECURSIVE scan_from(_, _, _, _, _, _)
scan_from(k, carry, ys, xs, W, reverse) ==
  IF k >= Len(xs) THEN <<carry, ys>>
  ELSE LET t == IF reverse THEN Len(xs) - k ELSE k + 1
           r == lstm_cell(carry, xs[t], W[1], W[2], W[3], W[4])
       IN  scan_from(k + 1, r[1], [ys EXCEPT ![t] = r[2]], xs, W, reverse)

\* variant of scan: the reverse flag is ignored
scan_forward_only(W, init, xs, reverse) ==
  scan_from(0, init, [t \in 1..Len(xs) |-> <<>>], xs, W, FALSE)

scan(W, init, xs, reverse) ==
  scan_from(0, init, [t \in 1..Len(xs) |-> <<>>], xs, W, reverse)

\* the operand shapes of x @ W_ii.T agree
MatmulOk(xs, W) == \A t \in 1..Len(xs) : \A n \in 1..Len(xs[t]) :
                     Len(xs[t][n]) = Len(W[1])

\* the weights partial() binds for pseudo-layer l
CellWeights(d, l) == <<d.W_ih[l], d.W_hh[l], d.b_ih[l], d.b_hh[l]>>

RefIdle ==
  [pc |-> "idle", l |-> 0, seq_first_y |-> <<>>, seq_first_y_fwd |-> <<>>,
   final_h |-> <<>>, final_c |-> <<>>, scans |-> 0, error |-> "none",
   y |-> <<>>, h_n |-> <<>>, c_n |-> <<>>, returned |-> FALSE]

\* variant of DropoutGuard: the test is missing
DropoutGuardOff(d) == FALSE

\* line 264: if dropout != 0.0
DropoutGuard(d) == d # 0

\* lines 269-274: the ragged check is commented out, nothing is tested
RaggedGuard(lens, max_seq_length) == FALSE

\* variant of InitCarry: every layer starts from the state of layer 0
InitCarryZero(h0, c0, l) == <<h0[0], c0[0]>>

\* the initial carry of the scan of pseudo-layer l
InitCarry(h0, c0, l) == <<h0[l], c0[l]>>

\* jnp.stack of a Python list: an array indexed from 0
stack(lst) == [l \in 0..(Len(lst) - 1) |-> lst[l + 1]]

\* lines 264-290: the dropout test, then the transposition of x
RefEnter(f, xin, drop, lens) ==
  IF DropoutGuard(drop) \/ RaggedGuard(lens, Len(xin[1]))
    THEN [f EXCEPT !.pc = "raised", !.error = "NotImplementedError"]
    ELSE [f EXCEPT !.pc = "loop", !.seq_first_y = transpose(xin)]

\* lines 294-300: one iteration of the non-bidirectional loop
RefLayerUni(f, d, h0, c0) ==
  LET W == CellWeights(d, f.l)
  IN  IF ~MatmulOk(f.seq_first_y, W[1])
        THEN [f EXCEPT !.pc = "raised", !.error = "matmul"]
        ELSE LET r == scan(W, InitCarry(h0, c0, f.l), f.seq_first_y, FALSE)
             IN  [f EXCEPT !.seq_first_y = r[2],
                           !.final_h = Append(@, r[1][1]),
                           !.final_c = Append(@, r[1][2]),
                           !.scans = @ + 1,
                           !.l = @ + 1]

\* lines 308-320: one iteration of the bidirectional loop
RefLayerBi(f, d, h0, c0) ==
  LET W == CellWeights(d, f.l)
  IN  IF ~MatmulOk(f.seq_first_y, W[1])
        THEN [f EXCEPT !.pc = "raised", !.error = "matmul"]
        ELSE LET r == scan(W, InitCarry(h0, c0, f.l), f.seq_first_y,
                           f.l % 2 # 0)
             IN  [f EXCEPT !.seq_first_y_fwd = IF f.l % 2 = 0 THEN r[2] ELSE @,
                           !.seq_first_y = IF f.l % 2 = 0 THEN @
                                           ELSE concatenate(f.seq_first_y_fwd, r[2]),
                           !.final_h = Append(@, r[1][1]),
                           !.final_c = Append(@, r[1][2]),
                           !.scans = @ + 1,
                           !.l = @ + 1]

\* lines 301-303 and 321-323
RefReturn(f) ==
  [f EXCEPT !.pc = "done", !.returned = TRUE,
            !.h_n = stack(f.final_h), !.c_n = stack(f.final_c),
            !.y = transpose(f.seq_first_y)]

(***************************************************************************)
(* Values the variables of the other components hold while one component   *)
(* is exercised.                                                           *)
(***************************************************************************)
NoArray == <<>>

BwdIdle == [pc |-> "idle", call |-> 0, config |-> <<>>, gradients |-> <<>>,
            kernel_args |-> <<>>, kernel_out |-> <<>>, result |-> <<>>]

Configs ==
  [input_size : 1..MaxInput, hidden_size : 1..MaxHidden,
   num_layers : 1..MaxLayers, bidirectional : BOOLEAN]

InitConfig ==
  \E cf \in Configs :
    /\ input_size = cf.input_size
    /\ hidden_size = cf.hidden_size
    /\ num_layers = cf.num_layers
    /\ bidirectional = cf.bidirectional

(***************************************************************************)
(* Specification SpecUnpack: unpack_lstm_weights on a buffer whose length  *)
(* is the parameter count plus a delta in -MaxDelta..MaxDelta.             *)
(***************************************************************************)
InitUnpack ==
  /\ InitConfig
  /\ \E rng \in 0..MaxRng, delta \in (0 - MaxDelta)..MaxDelta :
       weights = uniform(rng, get_num_params_in_lstm(input_size, hidden_size,
                                                     num_layers, bidirectional)
                              + delta)
  /\ unpack = UnpackIdle
  /\ x = NoArray /\ h_0 = NoArray /\ c_0 = NoArray
  /\ seq_lengths = NoArray /\ dropout = 0
  /\ ref = [pc |-> "unused"]
  /\ tape = <<>> /\ kernel_fwd = <<>> /\ bwd = BwdIdle

UnpackCall ==
  /\ unpack.pc = "idle"
  /\ unpack' = UnpackEnter(weights, input_size, hidden_size, num_layers,
                           bidirectional)
  /\ UNCHANGED <<cfgVars, weights, refArgs, ref, vjpVars>>

UnpackLinear ==
  /\ unpack.pc = "linear"
  /\ unpack' = UnpackBody(unpack, weights, NumPseudoLayers)
  /\ UNCHANGED <<cfgVars, weights, refArgs, ref, vjpVars>>

UnpackBias ==
  /\ unpack.pc = "bias"
  /\ unpack' = UnpackBody(unpack, weights, NumPseudoLayers)
  /\ UNCHANGED <<cfgVars, weights, refArgs, ref, vjpVars>>

UnpackRet ==
  /\ unpack.pc = "return"
  /\ unpack' = UnpackReturn(unpack)
  /\ UNCHANGED <<cfgVars, weights, refArgs, ref, vjpVars>>

NextUnpack == UnpackCall \/ UnpackLinear \/ UnpackBias \/ UnpackRet

SpecUnpack == InitUnpack /\ [][NextUnpack]_vars

(***************************************************************************)
(* Claims about the packed layout, checked under SpecUnpack.               *)
(***************************************************************************)
ParamCount ==
  get_num_params_in_lstm(input_size, hidden_size, num_layers, bidirectional)

\* C1: the shape list has exactly 4*P entries; entries 2i and 2i+1 (0-based)
\* are the shapes of W_ih[i] and W_hh[i], entries 2P+2i and 2P+2i+1 those of
\* b_ih[i] and b_hh[i]; W_ih[i] is (4h, input_size) for i = 0 and for i = 1
\* when bidirectional, (4h, num_directions*h) otherwise; W_hh[i] is (4h, h);
\* both biases are (4h,).
C1_ShapeListOrder ==
  unpack.pc # "idle" =>
    LET P == NumPseudoLayers
        fs == unpack.flat_shapes
        h4 == 4 * hidden_size
        nd == IF bidirectional THEN 2 ELSE 1
    IN  /\ Len(fs) = 4 * P
        /\ \A i \in 0..(P - 1) :
             /\ fs[2 * i + 1] = (IF i = 0 \/ (i = 1 /\ bidirectional)
                                   THEN <<h4, input_size>>
                                   ELSE <<h4, nd * hidden_size>>)
             /\ fs[2 * i + 2] = <<h4, hidden_size>>
             /\ fs[2 * P + 2 * i + 1] = <<h4>>
             /\ fs[2 * P + 2 * i + 2] = <<h4>>

C1_Witness ==
  /\ unpack.pc # "idle" /\ bidirectional /\ num_layers = 2
  /\ input_size # 2 * hidden_size
  /\ Len(unpack.flat_shapes) = 16

\* C2: on a buffer of exactly get_num_params_in_lstm elements the slices are
\* taken in shape-list order, the k-th of length prod(flat_shapes[k]), the
\* first starting at offset 0 and each next one where the previous ended (so
\* they are contiguous and pairwise disjoint), the running offset is the end
\* of the last slice, and at the return all 4*P slices were taken and the
\* offset equals the buffer length.
C2_SlicesTileBuffer ==
  Len(weights) = ParamCount =>
    LET sl == unpack.slices
        fs == unpack.flat_shapes
    IN  /\ unpack.error = "none"
        /\ Len(sl) = unpack.flat_shapes_offset
        /\ \A k \in 1..Len(sl) :
             /\ sl[k].len = prod(fs[k])
             /\ sl[k].start = (IF k = 1 THEN 0
                               ELSE sl[k - 1].start + sl[k - 1].len)
             /\ sl[k].start + sl[k].len <= Len(weights)
        /\ unpack.w_offsets = (IF sl = <<>> THEN 0
                               ELSE sl[Len(sl)].start + sl[Len(sl)].len)
        /\ unpack.pc \in {"return", "done"} =>
             /\ Len(sl) = 4 * NumPseudoLayers
             /\ unpack.w_offsets = Len(weights)

C2_Witness ==
  /\ Len(weights) = ParamCount
  /\ unpack.pc = "done"
  /\ Len(unpack.slices) = 16
  /\ unpack.w_offsets = Len(weights)

\* row-major flattening of a 2-D array: its rows, one after the other
RECURSIVE Flatten(_)
Flatten(a) == IF a = <<>> THEN <<>> ELSE Head(a) \o Flatten(Tail(a))

RECURSIVE PackMatrices(_, _, _, _)
PackMatrices(i, P, first, second) ==
  IF i >= P THEN <<>>
  ELSE Flatten(first[i]) \o Flatten(second[i])
       \o PackMatrices(i + 1, P, first, second)

RECURSIVE PackVectors(_, _, _, _)
PackVectors(i, P, first, second) ==
  IF i >= P THEN <<>>
  ELSE first[i] \o second[i] \o PackVectors(i + 1, P, first, second)

Pack(f, P) ==
  PackMatrices(0, P, f.W_ih, f.W_hh) \o PackVectors(0, P, f.b_ih, f.b_hh)

\* C3: for a buffer of exactly param_count elements, flattening the returned
\* arrays row-major in the packed order (W_ih[0], W_hh[0], ..., b_ih[0],
\* b_hh[0], ...) and concatenating gives back the buffer, element for element;
\* each returned array has the shape the shape list gives it.
C3_RoundTrip ==
  (Len(weights) = ParamCount /\ unpack.pc = "done") =>
    /\ DOMAIN unpack.W_ih = 0..(NumPseudoLayers - 1)
    /\ DOMAIN unpack.W_hh = 0..(NumPseudoLayers - 1)
    /\ DOMAIN unpack.b_ih = 0..(NumPseudoLayers - 1)
    /\ DOMAIN unpack.b_hh = 0..(NumPseudoLayers - 1)
    /\ \A i \in 0..(NumPseudoLayers - 1) :
         /\ Len(unpack.W_ih[i]) = 4 * hidden_size
         /\ Len(unpack.W_hh[i]) = 4 * hidden_size
         /\ Len(unpack.W_hh[i][1]) = hidden_size
         /\ Len(unpack.b_ih[i]) = 4 * hidden_size
         /\ Len(unpack.b_hh[i]) = 4 * hidden_size
    /\ Pack(unpack, NumPseudoLayers) = weights

C3_Witness ==
  /\ Len(weights) = ParamCount /\ unpack.pc = "done"
  /\ bidirectional /\ num_layers = 2 /\ hidden_size = 2 /\ input_size = 1
  /\ \E k \in 1..(Len(weights) - 1) : weights[k] # weights[k + 1]

\* C4 (the claim as stated): on a buffer whose length differs from the
\* parameter count the call ends by raising, with no slice taken and nothing
\* returned.
C4_LengthMismatchRejected ==
  (Len(weights) # ParamCount /\ unpack.pc \in {"raised", "done"}) =>
    /\ unpack.pc = "raised"
    /\ unpack.slices = <<>>
    /\ ~unpack.returned

(***************************************************************************)
(* Specification SpecRef: lstm_ref on the arrays unpack_lstm_weights        *)
(* returns for a buffer of init_lstm_weight, as in the module's example.   *)
(***************************************************************************)
DropoutValues == {0, 5}   \* dropout in tenths: 0.0 and 0.5

\* seq_lengths: every element max_seq_length, or one element one step short
SeqLengthChoices(B, T) ==
  {[n \in 1..B |-> T]}
  \cup {[n \in 1..B |-> IF n = k THEN T - 1 ELSE T] : k \in (IF T > 1 THEN 1..B ELSE {})}

InitRef ==
  /\ InitConfig
  /\ \E rng \in 0..MaxRng, T \in 1..MaxSeqLen, B \in 1..MaxBatch :
       /\ x = normal(4 * rng + 1, B, T, input_size)
       /\ h_0 = [l \in 0..(NumPseudoLayers - 1) |->
                   normal(4 * rng + 2, NumPseudoLayers, B, hidden_size)[l + 1]]
       /\ c_0 = [l \in 0..(NumPseudoLayers - 1) |->
                   normal(4 * rng + 3, NumPseudoLayers, B, hidden_size)[l + 1]]
       /\ weights = init_lstm_weight(4 * rng, input_size, hidden_size,
                                     num_layers, bidirectional)
       /\ seq_lengths \in SeqLengthChoices(B, T)
  /\ dropout \in DropoutValues
  /\ unpack = unpack_lstm_weights(weights, input_size, hidden_size,
                                  num_layers, bidirectional)
  /\ ref = RefIdle
  /\ tape = <<>> /\ kernel_fwd = <<>> /\ bwd = BwdIdle

RefCall ==
  /\ ref.pc = "idle"
  /\ ref' = RefEnter(ref, x, dropout, seq_lengths)
  /\ UNCHANGED <<cfgVars, weights, unpack, refArgs, vjpVars>>

RefLayer ==
  /\ ref.pc = "loop" /\ ~bidirectional /\ ref.l < num_layers
  /\ ref' = RefLayerUni(ref, unpack, h_0, c_0)
  /\ UNCHANGED <<cfgVars, weights, unpack, refArgs, vjpVars>>

RefLayerFwd ==
  /\ ref.pc = "loop" /\ bidirectional /\ ref.l < num_layers * 2
  /\ ref.l % 2 = 0
  /\ ref' = RefLayerBi(ref, unpack, h_0, c_0)
  /\ UNCHANGED <<cfgVars, weights, unpack, refArgs, vjpVars>>

RefLayerBwd ==
  /\ ref.pc = "loop" /\ bidirectional /\ ref.l < num_layers * 2
  /\ ref.l % 2 # 0
  /\ ref' = RefLayerBi(ref, unpack, h_0, c_0)
  /\ UNCHANGED <<cfgVars, weights, unpack, refArgs, vjpVars>>

RefRet ==
  /\ ref.pc = "loop" /\ ref.l = NumPseudoLayers
  /\ ref' = RefReturn(ref)
  /\ UNCHANGED <<cfgVars, weights, unpack, refArgs, vjpVars>>

NextRef == RefCall \/ RefLayer \/ RefLayerFwd \/ RefLayerBwd \/ RefRet

SpecRef == InitRef /\ [][NextRef]_vars

(***************************************************************************)
(* Claims about lstm_ref, checked under SpecRef.                           *)
(***************************************************************************)
BatchSize == Len(x)

MaxSeqLength == Len(x[1])

Ragged == \E n \in 1..BatchSize : seq_lengths[n] # MaxSeqLength

\* C5 (the claim as stated): a call whose seq_lengths has an element that
\* differs from max_seq_length raises, with no scan evaluated and nothing
\* returned.
C5_RaggedRejected ==
  (Ragged /\ ref.pc # "idle") =>
    /\ ref.pc = "raised"
    /\ ref.scans = 0
    /\ ~ref.returned

\* C6 (the claim as stated): for num_layers = 1, bidirectional, on a batch
\* whose seq_lengths all equal max_seq_length, every time
\* step of y has 2*hidden_size features, the first half of the LAST time
\* step of y is h_n[0] and the second half of the LAST time step is h_n[1].
C6_BidirLastStepBothHalves ==
  (ref.pc = "done" /\ bidirectional /\ num_layers = 1 /\ ~Ragged) =>
    \A n \in 1..BatchSize :
      /\ \A t \in 1..MaxSeqLength : Len(ref.y[n][t]) = 2 * hidden_size
      /\ SubSeq(ref.y[n][MaxSeqLength], 1, hidden_size) = ref.h_n[0][n]
      /\ SubSeq(ref.y[n][MaxSeqLength], hidden_size + 1, 2 * hidden_size)
           = ref.h_n[1][n]

\* C6 (amended): for num_layers = 1, bidirectional, every time step of y has
\* 2*hidden_size features, the first half of the LAST time step of y is
\* h_n[0], and the second half of the FIRST time step of y is h_n[1] (the
\* reverse scan ends at time index 0).
C6_BidirConcatenation ==
  (ref.pc = "done" /\ bidirectional /\ num_layers = 1) =>
    \A n \in 1..BatchSize :
      /\ \A t \in 1..MaxSeqLength : Len(ref.y[n][t]) = 2 * hidden_size
      /\ SubSeq(ref.y[n][MaxSeqLength], 1, hidden_size) = ref.h_n[0][n]
      /\ SubSeq(ref.y[n][1], hidden_size + 1, 2 * hidden_size) = ref.h_n[1][n]

C6_Witness ==
  /\ ~Ragged
  /\ ref.pc = "done" /\ bidirectional /\ num_layers = 1
  /\ MaxSeqLength >= 2
  /\ SubSeq(ref.y[1][MaxSeqLength], hidden_size + 1, 2 * hidden_size)
       # ref.h_n[1][1]
  /\ SubSeq(ref.y[1][1], hidden_size + 1, 2 * hidden_size) = ref.h_n[1][1]

\* Chain(k): for l = 0..k-1, the forward recurrence of layer l alone, from
\* (h_0[l], c_0[l]), with the weights of pseudo-layer l, over the hidden
\* sequence of layer l - 1 (over x, time-major, for l = 0)
RECURSIVE Chain(_)
Chain(k) ==
  IF k = 0 THEN <<>>
  ELSE LET below == Chain(k - 1)
           l == k - 1
       IN  Append(below,
                  scan(<<unpack.W_ih[l], unpack.W_hh[l],
                         unpack.b_ih[l], unpack.b_hh[l]>>,
                       <<h_0[l], c_0[l]>>,
                       IF l = 0 THEN transpose(x) ELSE below[l][2],
                       FALSE))

\* C7: non-bidirectional: after k layers the loop holds the hidden sequence
\* of layer k - 1 and the final (h, c) of layers 0..k-1, each layer being the
\* forward recurrence from (h_0[l], c_0[l]) with pseudo-layer l's weights
\* over the previous layer's hidden sequence; the call returns these as h_n,
\* c_n and the last layer's hidden sequence, batch-major, as y.
C7_LayerComposition ==
  (~bidirectional /\ ref.pc \in {"loop", "done"}) =>
    LET ch == Chain(ref.l)
    IN  /\ \A l \in 0..(ref.l - 1) :
             /\ ref.final_h[l + 1] = ch[l + 1][1][1]
             /\ ref.final_c[l + 1] = ch[l + 1][1][2]
        /\ ref.seq_first_y = (IF ref.l = 0 THEN transpose(x)
                              ELSE ch[ref.l][2])
        /\ ref.pc = "done" =>
             /\ ref.l = num_layers
             /\ DOMAIN ref.h_n = 0..(num_layers - 1)
             /\ \A l \in 0..(num_layers - 1) :
                  /\ ref.h_n[l] = ch[l + 1][1][1]
                  /\ ref.c_n[l] = ch[l + 1][1][2]
             /\ ref.y = transpose(ch[num_layers][2])

C7_Witness ==
  /\ ~Ragged
  /\ ~bidirectional /\ ref.pc = "done" /\ num_layers = 2
  /\ MaxSeqLength >= 2
  /\ ref.h_n[0] # ref.h_n[1]
  /\ ref.y # transpose(Chain(1)[1][2])

\* C9: with a nonzero dropout the call raises NotImplementedError before any
\* scan is evaluated and returns no (y, h_n, c_n); with dropout 0 that error
\* is never raised.
C9_DropoutRejected ==
  /\ (dropout # 0 /\ ref.pc # "idle") =>
       /\ ref.pc = "raised"
       /\ ref.error = "NotImplementedError"
       /\ ref.scans = 0
       /\ ~ref.returned
       /\ ref.y = <<>> /\ ref.h_n = <<>> /\ ref.c_n = <<>>
  /\ dropout = 0 => ref.error # "NotImplementedError"

C9_Witness ==
  /\ dropout = 5 /\ ref.pc = "raised" /\ ref.error = "NotImplementedError"

\* the feature size of a time-major (T, B, F) array
FeatureSize(a) == Len(a[1][1])

\* C10: whenever the loop is about to run pseudo-layer i, the feature size
\* of the sequence it feeds to it (input_size for the first logical layer,
\* hidden_size for later non-bidirectional layers, 2*hidden_size for later
\* bidirectional pseudo-layers, both members of a pair getting the same
\* sequence) is the second dimension of the shape _W_ih_l gives W_ih[i] and
\* of the unpacked W_ih[i]; the cell update never meets a dimension mismatch.
C10_InputWidthMatchesWih ==
  /\ ref.error # "matmul"
  /\ (ref.pc = "loop" /\ ref.l < NumPseudoLayers) =>
       LET i == ref.l
           fed == FeatureSize(ref.seq_first_y)
       IN  /\ fed = (IF bidirectional
                       THEN (IF i < 2 THEN input_size ELSE 2 * hidden_size)
                       ELSE (IF i < 1 THEN input_size ELSE hidden_size))
           /\ fed = _W_ih_l(i, input_size, hidden_size, bidirectional)[2]
           /\ fed = Len(unpack.W_ih[i][1])
           /\ \A t \in 1..Len(ref.seq_first_y) :
                \A n \in 1..Len(ref.seq_first_y[t]) :
                  Len(ref.seq_first_y[t][n]) = fed

C10_Witness ==
  /\ ~Ragged
  /\ ref.pc = "loop" /\ ref.l = 3 /\ bidirectional
  /\ input_size # 2 * hidden_size
  /\ FeatureSize(ref.seq_first_y) = 2 * hidden_size

(***************************************************************************)
(* lstm_fwd / lstm_bwd around the kernel primitives.  A tensor the wrapper *)
(* only passes along is an opaque value <<role, id>>; seq_lengths is an    *)
(* integer vector, since lstm_bwd builds zeros of its shape.               *)
(***************************************************************************)
\* the outcomes the opaque kernel calls may produce
KernelOutcomes == {0, 1}

\* the keyword arguments of both bind calls
BindConfig(in_size, hid, layers, drop, bidir) ==
  [input_size |-> in_size, hidden_size |-> hid, num_layers |-> layers,
   dropout |-> drop, bidirectional |-> bidir]

\* rnn_fwd_p.bind: (y, h_n, c_n, workspace, reserve_space), opaque
rnn_fwd_p_bind(args, config, k) ==
  <<<<"y", k>>, <<"h_n", k>>, <<"c_n", k>>, <<"workspace", k>>,
    <<"reserve_space", k>>>>

\* rnn_bwd_p.bind: (dx, dh_0, dc_0, dw), opaque
rnn_bwd_p_bind(args, config, k) ==
  <<<<"dx", k>>, <<"dh_0", k>>, <<"dc_0", k>>, <<"dw", k>>>>

\* lines 329-334: the positional arguments lstm_fwd gives rnn_fwd_p.bind
lstm_fwd_bind_args(xa, h0a, c0a, w, lens) == <<xa, h0a, c0a, w, lens>>

\* variant of lstm_fwd_return: workspace and reserve_space change places
lstm_fwd_return_swapped(xa, h0a, c0a, w, lens, out) ==
  [primal |-> <<out[1], out[2], out[3]>>,
   residuals |-> <<xa, h0a, c0a, w, lens, out[1], out[5], out[4]>>]

\* lines 340-341: what lstm_fwd returns, given what the kernel returned
lstm_fwd_return(xa, h0a, c0a, w, lens, out) ==
  [primal |-> <<out[1], out[2], out[3]>>,
   residuals |-> <<xa, h0a, c0a, w, lens, out[1], out[4], out[5]>>]

\* lines 370-383: the positional arguments lstm_bwd gives rnn_bwd_p.bind
lstm_bwd_bind_args(residuals, gradients) ==
  LET xa == residuals[1]
      h0a == residuals[2]
      c0a == residuals[3]
      w == residuals[4]
      lens == residuals[5]
      y == residuals[6]
      workspace == residuals[7]
      reserve_space == residuals[8]
      dy == gradients[1]
      dh_n == gradients[2]
      dc_n == gradients[3]
  IN  <<dy, dh_n, dc_n, xa, h0a, c0a, w, y, workspace, reserve_space, lens>>

zeros_like(a) == [n \in 1..Len(a) |-> 0]

\* line 389: what lstm_bwd returns, given what the kernel returned
lstm_bwd_return(out, residuals) ==
  <<out[1], out[2], out[3], out[4], zeros_like(residuals[5])>>

(***************************************************************************)
(* Specification SpecVjp: up to MaxCalls lstm_fwd calls, whose residuals   *)
(* the differentiation engine keeps on its tape with the call's static     *)
(* arguments, and lstm_bwd calls on any of them.                           *)
(***************************************************************************)
InitVjp ==
  /\ input_size = MaxInput /\ hidden_size = MaxHidden /\ num_layers = MaxLayers
  /\ bidirectional \in BOOLEAN
  /\ dropout \in DropoutValues
  /\ weights = NoArray /\ unpack = UnpackIdle
  /\ x = NoArray /\ h_0 = NoArray /\ c_0 = NoArray /\ seq_lengths = NoArray
  /\ ref = [pc |-> "unused"]
  /\ tape = <<>> /\ kernel_fwd = <<>> /\ bwd = BwdIdle

LstmFwd ==
  /\ Len(tape) < MaxCalls
  /\ \E id \in 0..MaxRng, B \in {1, MaxBatch}, k \in KernelOutcomes :
       LET xa == <<"x", id>>
           h0a == <<"h_0", id>>
           c0a == <<"c_0", id>>
           w == <<"weights", id>>
           lens == [n \in 1..B |-> MaxSeqLen]
           config == BindConfig(input_size, hidden_size, num_layers, dropout,
                                bidirectional)
           args == lstm_fwd_bind_args(xa, h0a, c0a, w, lens)
           out == rnn_fwd_p_bind(args, config, k)
           ret == lstm_fwd_return(xa, h0a, c0a, w, lens, out)
       IN  /\ kernel_fwd' = Append(kernel_fwd,
                                   [inputs |-> <<xa, h0a, c0a, w, lens>>,
                                    args |-> args, config |-> config,
                                    out |-> out])
           /\ tape' = Append(tape, [nondiff |-> config,
                                    residuals |-> ret.residuals,
                                    primal |-> ret.primal])
  /\ UNCHANGED <<cfgVars, weights, unpack, refArgs, ref, bwd>>

LstmBwd ==
  /\ \E i \in 1..Len(tape), g \in KernelOutcomes, k \in KernelOutcomes :
       LET gradients == <<<<"dy", g>>, <<"dh_n", g>>, <<"dc_n", g>>>>
           config == BindConfig(tape[i].nondiff.input_size,
                                tape[i].nondiff.hidden_size,
                                tape[i].nondiff.num_layers,
                                tape[i].nondiff.dropout,
                                tape[i].nondiff.bidirectional)
           args == lstm_bwd_bind_args(tape[i].residuals, gradients)
           out == rnn_bwd_p_bind(args, config, k)
       IN  bwd' = [pc |-> "done", call |-> i, config |-> config,
                   gradients |-> gradients, kernel_args |-> args,
                   kernel_out |-> out,
                   result |-> lstm_bwd_return(out, tape[i].residuals)]
  /\ UNCHANGED <<cfgVars, weights, unpack, refArgs, ref, tape, kernel_fwd>>

NextVjp == LstmFwd \/ LstmBwd

SpecVjp == InitVjp /\ [][NextVjp]_vars

\* C8: in every lstm_bwd call on the residuals of an lstm_fwd call, the
\* kernel backward op receives (dy, dh_n, dc_n, x, h_0, c_0, weights, y,
\* workspace, reserve_space, seq_lengths), where x, h_0, c_0, weights,
\* seq_lengths are that forward call's inputs (which the kernel forward op
\* received in this order) and y, workspace, reserve_space are what the
\* kernel forward op returned in that same call, with the same configuration
\* scalars; lstm_bwd returns the kernel's (dx, dh_0, dc_0, dweights)
\* followed by zeros of seq_lengths' shape.
C8_ResidualThreading ==
  /\ \A i \in 1..Len(tape) :
       /\ kernel_fwd[i].args = kernel_fwd[i].inputs
       /\ tape[i].primal = SubSeq(kernel_fwd[i].out, 1, 3)
  /\ bwd.pc = "done" =>
       LET f == kernel_fwd[bwd.call]
       IN  /\ bwd.kernel_args =
                <<bwd.gradients[1], bwd.gradients[2], bwd.gradients[3],
                  f.inputs[1], f.inputs[2], f.inputs[3], f.inputs[4],
                  f.out[1], f.out[4], f.out[5], f.inputs[5]>>
           /\ bwd.config = f.config
           /\ Len(bwd.result) = 5
           /\ SubSeq(bwd.result, 1, 4) = bwd.kernel_out
           /\ Len(bwd.result[5]) = Len(f.inputs[5])
           /\ \A n \in 1..Len(bwd.result[5]) : bwd.result[5][n] = 0

C8_Witness ==
  /\ bwd.pc = "done" /\ Len(tape) = 2 /\ bwd.call = 1
  /\ kernel_fwd[1].out # kernel_fwd[2].out
  /\ kernel_fwd[1].inputs # kernel_fwd[2].inputs
  /\ bwd.kernel_args[9] = kernel_fwd[1].out[4]

====
